---- MODULE Spec2Model ----
(***************************************************************************)
(* Boxing exercise: the boxer registry (boxers_model.py), the ring         *)
(* simulator (ring_model.py) and the random source (api_utils.py).         *)
(*                                                                         *)
(* The functions are modelled statement by statement.  Every operation is  *)
(* one action; its outcome (exception raised, value returned, registry     *)
(* updates committed, random values drawn) is recorded in `last`.          *)
(*                                                                         *)
(* boxers_model.py does not compile as it stands: the docstrings of        *)
(* Boxer.__post_init__ (line 26) and delete_boxer (line 92) are indented   *)
(* wrongly.  The model takes the functions as their statements read.       *)
(* The schema of the table `boxers` is not part of the sources; the model  *)
(* takes name as UNIQUE, fights and wins as 0 on insert, and ids as        *)
(* assigned in increasing order and never reused.                          *)
(***************************************************************************)
EXTENDS Integers, Sequences, FiniteSets, TLC

VARIABLES
    boxers,   \* rows of the table `boxers`: the registry
    nextId,   \* next id the store hands out to an inserted row
    ring,     \* RingModel.ring: list of Boxer objects
    last      \* the most recent call: operation, arguments, outcome

vars == <<boxers, nextId, ring, last>>

----------------------------------------------------------------------------
(* Bounds of the model *)

MaxId == 3          \* rows ever inserted
MaxFights == 2      \* cap on a row's fights counter

MinWeight == 100    \* weights given to get_weight_class on its own
MaxWeight == 250

MaxRecordFights == 12   \* fights of the row the win_pct is reported for

(* Inputs the callers are given *)
Names == {"Ali", "Tyson"}
Weights == {124, 125, 203}
Heights == {-1, 0, 1}
Reaches == {-1, 0, 1}
Ages == {17, 18, 40, 41}

\* create_boxer arguments of the callers that also use the ring
RosterInputs ==
    {<<"Ali", 210, 191, 198, 38>>, <<"Tyson", 125, 178, 180, 22>>,
     <<"Tyson", 124, 178, 180, 22>>}

\* create_boxer arguments of the callers that use the registry alone
RegistryInputs == RosterInputs \cup {<<"Frazier", 166, 182, 185, 30>>}

\* Names given to get_boxer_by_name
RegistryNames == {in[1] : in \in RegistryInputs}
Results == {"win", "loss", "draw"}
SortKeys == {"wins", "win_pct", "name"}
Ids == 1..MaxId

NoError == "none"

----------------------------------------------------------------------------
(* boxers_model.py *)

\* get_weight_class as if the first test were weight > 203
get_weight_class_strict(weight) ==
    IF weight > 203 THEN [err |-> NoError, ret |-> "HEAVYWEIGHT"]
    ELSE IF weight >= 166 THEN [err |-> NoError, ret |-> "MIDDLEWEIGHT"]
    ELSE IF weight >= 133 THEN [err |-> NoError, ret |-> "LIGHTWEIGHT"]
    ELSE IF weight >= 125 THEN [err |-> NoError, ret |-> "FEATHERWEIGHT"]
    ELSE [err |-> "ValueError:invalid_weight", ret |-> "none"]

\* get_weight_class: the band of a weight, or the ValueError it raises
get_weight_class(weight) ==
    IF weight >= 203 THEN [err |-> NoError, ret |-> "HEAVYWEIGHT"]
    ELSE IF weight >= 166 THEN [err |-> NoError, ret |-> "MIDDLEWEIGHT"]
    ELSE IF weight >= 133 THEN [err |-> NoError, ret |-> "LIGHTWEIGHT"]
    ELSE IF weight >= 125 THEN [err |-> NoError, ret |-> "FEATHERWEIGHT"]
    ELSE [err |-> "ValueError:invalid_weight", ret |-> "none"]

\* Boxer dataclass: __post_init__ assigns weight_class from the weight
Boxer(id, name, weight, height, reach, age) ==
    [type |-> "Boxer", id |-> id, name |-> name, weight |-> weight,
     height |-> height, reach |-> reach, age |-> age,
     weight_class |-> get_weight_class(weight).ret]

\* SELECT ... FROM boxers WHERE id = ?
RowsById(id) == {r \in boxers : r.id = id}

\* SELECT ... FROM boxers WHERE name = ?
RowsByName(name) == {r \in boxers : r.name = name}

\* The call recorded in `last`
Call(op, args, err, ret, updates, draws) ==
    [op |-> op, args |-> args, err |-> err, ret |-> ret,
     updates |-> updates, draws |-> draws]

Init ==
    /\ boxers = {}
    /\ nextId = 1
    /\ ring = << >>
    /\ last = Call("init", << >>, NoError, << >>, << >>, 0)

\* create_boxer as if the age were tested before the weight
CreateValidationAgeFirst(weight, height, reach, age) ==
    IF ~(18 <= age /\ age <= 40) THEN "ValueError:invalid_age"
    ELSE IF weight < 125 THEN "ValueError:invalid_weight"
    ELSE IF height <= 0 THEN "ValueError:invalid_height"
    ELSE IF reach <= 0 THEN "ValueError:invalid_reach"
    ELSE NoError

\* create_boxer as if the height test were height < 0
CreateValidationLax(weight, height, reach, age) ==
    IF weight < 125 THEN "ValueError:invalid_weight"
    ELSE IF height < 0 THEN "ValueError:invalid_height"
    ELSE IF reach <= 0 THEN "ValueError:invalid_reach"
    ELSE IF ~(18 <= age /\ age <= 40) THEN "ValueError:invalid_age"
    ELSE NoError

\* create_boxer: the first failed check of weight, height, reach, age
CreateValidation(weight, height, reach, age) ==
    IF weight < 125 THEN "ValueError:invalid_weight"
    ELSE IF height <= 0 THEN "ValueError:invalid_height"
    ELSE IF reach <= 0 THEN "ValueError:invalid_reach"
    ELSE IF ~(18 <= age /\ age <= 40) THEN "ValueError:invalid_age"
    ELSE NoError

\* INSERT INTO boxers: the store refuses a second row with a name (UNIQUE),
\* else adds the row under a fresh id with fights = 0 and wins = 0
InsertRow(name, weight, height, reach, age) ==
    IF \E r \in boxers : r.name = name
    THEN [err |-> "IntegrityError", rows |-> boxers]
    ELSE [err |-> NoError,
          rows |-> boxers \cup {[id |-> nextId, name |-> name,
                                 weight |-> weight, height |-> height,
                                 reach |-> reach, age |-> age,
                                 fights |-> 0, wins |-> 0]}]

\* create_boxer as if it neither looked the name up nor caught the store's
\* IntegrityError
CreateErrorUnchecked(name, weight, height, reach, age) ==
    IF CreateValidation(weight, height, reach, age) # NoError
    THEN CreateValidation(weight, height, reach, age)
    ELSE InsertRow(name, weight, height, reach, age).err

\* create_boxer: what the call raises
CreateError(name, weight, height, reach, age) ==
    IF CreateValidation(weight, height, reach, age) # NoError
    THEN CreateValidation(weight, height, reach, age)
    ELSE IF RowsByName(name) # {} THEN "ValueError:already_exists"
    ELSE IF InsertRow(name, weight, height, reach, age).err = "IntegrityError"
    THEN "ValueError:already_exists"
    ELSE NoError

create_boxer(name, weight, height, reach, age) ==
    LET err == CreateError(name, weight, height, reach, age) IN
    /\ err = NoError => nextId <= MaxId
    /\ IF err = NoError
       THEN /\ boxers' = InsertRow(name, weight, height, reach, age).rows
            /\ nextId' = nextId + 1
       ELSE UNCHANGED <<boxers, nextId>>
    /\ last' = Call("create_boxer", <<name, weight, height, reach, age>>,
                    err, << >>, << >>, 0)
    /\ UNCHANGED ring

\* delete_boxer as if the DELETE had no WHERE clause
delete_boxer_all(boxer_id) ==
    /\ IF RowsById(boxer_id) = {}
       THEN /\ UNCHANGED boxers
            /\ last' = Call("delete_boxer", <<boxer_id>>,
                            "ValueError:not_found", << >>, << >>, 0)
       ELSE /\ boxers' = {}
            /\ last' = Call("delete_boxer", <<boxer_id>>, NoError,
                            << >>, << >>, 0)
    /\ UNCHANGED <<nextId, ring>>

delete_boxer(boxer_id) ==
    /\ IF RowsById(boxer_id) = {}
       THEN /\ UNCHANGED boxers
            /\ last' = Call("delete_boxer", <<boxer_id>>,
                            "ValueError:not_found", << >>, << >>, 0)
       ELSE /\ boxers' = boxers \ RowsById(boxer_id)
            /\ last' = Call("delete_boxer", <<boxer_id>>, NoError,
                            << >>, << >>, 0)
    /\ UNCHANGED <<nextId, ring>>

\* update_boxer_stats: what the call raises on the rows `rows`
UpdateError(rows, boxer_id, result) ==
    IF result \notin {"win", "loss"} THEN "ValueError:invalid_result"
    ELSE IF {r \in rows : r.id = boxer_id} = {} THEN "ValueError:not_found"
    ELSE NoError

\* update_boxer_stats as if a win ran SET wins = wins + 1 only
UpdateRowsWinOnly(rows, boxer_id, result) ==
    IF UpdateError(rows, boxer_id, result) # NoError THEN rows
    ELSE {IF r.id # boxer_id THEN r
          ELSE IF result = "win"
               THEN [r EXCEPT !.wins = @ + 1]
               ELSE [r EXCEPT !.fights = @ + 1] : r \in rows}

\* update_boxer_stats as if a loss ran the UPDATE of a win
UpdateRowsLossAsWin(rows, boxer_id, result) ==
    IF UpdateError(rows, boxer_id, result) # NoError THEN rows
    ELSE {IF r.id # boxer_id THEN r
          ELSE [r EXCEPT !.fights = @ + 1, !.wins = @ + 1] : r \in rows}

\* update_boxer_stats: the rows after the call (unchanged when it raises)
UpdateRows(rows, boxer_id, result) ==
    IF UpdateError(rows, boxer_id, result) # NoError THEN rows
    ELSE {IF r.id # boxer_id THEN r
          ELSE IF result = "win"
               THEN [r EXCEPT !.fights = @ + 1, !.wins = @ + 1]
               ELSE [r EXCEPT !.fights = @ + 1] : r \in rows}

update_boxer_stats(boxer_id, result) ==
    /\ \A r \in RowsById(boxer_id) : r.fights < MaxFights
    /\ boxers' = UpdateRows(boxers, boxer_id, result)
    /\ last' = Call("update_boxer_stats", <<boxer_id, result>>,
                    UpdateError(boxers, boxer_id, result), << >>,
                    IF UpdateError(boxers, boxer_id, result) = NoError
                    THEN << <<boxer_id, result>> >> ELSE << >>, 0)
    /\ UNCHANGED <<nextId, ring>>

\* get_leaderboard as if the query were WHERE fights > 1
LeaderboardRowsOverOne == {r \in boxers : r.fights > 1}

\* get_leaderboard: the rows the query selects (WHERE fights > 0)
LeaderboardRows == {r \in boxers : r.fights > 0}

\* ORDER BY wins DESC / ORDER BY win_pct DESC, win_pct = wins * 1.0 / fights:
\* a comes no later than b
OrderedBefore(sort_by, a, b) ==
    IF sort_by = "wins" THEN a.wins >= b.wins
    ELSE a.wins * b.fights >= b.wins * a.fights

\* The orders in which the store may return the rows (ties in any order)
QueryResults(sort_by) ==
    LET n == Cardinality(LeaderboardRows) IN
    {s \in [1..n -> LeaderboardRows] :
        /\ \A i, j \in 1..n : i # j => s[i] # s[j]
        /\ \A i, j \in 1..n : i < j => OrderedBefore(sort_by, s[i], s[j])}

\* round((wins * 1.0 / fights) * 100, 1) as if the last digit were cut off
WinPctTruncated(wins, fights) == (1000 * wins) \div fights

\* round((wins * 1.0 / fights) * 100, 1), in tenths of a percent: the nearest
\* tenth (no quotient lies halfway between two tenths while fights < 16)
WinPct(wins, fights) == (2000 * wins + fights) \div (2 * fights)

\* One entry of the list get_leaderboard returns
LeaderboardEntry(row) ==
    [id |-> row.id, name |-> row.name, weight |-> row.weight,
     height |-> row.height, reach |-> row.reach, age |-> row.age,
     weight_class |-> get_weight_class(row.weight).ret,
     fights |-> row.fights, wins |-> row.wins,
     win_pct |-> WinPct(row.wins, row.fights)]

get_leaderboard(sort_by) ==
    /\ IF sort_by \notin {"win_pct", "wins"}
       THEN last' = Call("get_leaderboard", <<sort_by>>,
                         "ValueError:invalid_sort_by", << >>, << >>, 0)
       ELSE \E rows \in QueryResults(sort_by) :
              last' = Call("get_leaderboard", <<sort_by>>, NoError,
                           [i \in DOMAIN rows |-> LeaderboardEntry(rows[i])],
                           << >>, 0)
    /\ UNCHANGED <<boxers, nextId, ring>>

\* get_weight_class called on its own
GetWeightClassCall(weight) ==
    /\ last' = Call("get_weight_class", <<weight>>,
                    get_weight_class(weight).err,
                    <<get_weight_class(weight).ret>>, << >>, 0)
    /\ UNCHANGED <<boxers, nextId, ring>>

\* The Boxer built from a row as if height and reach were taken from each
\* other's column
BoxerOfRowSwapped(r) ==
    Boxer(r.id, r.name, r.weight, r.reach, r.height, r.age)

\* get_boxer_by_id: the Boxer built from the row
BoxerOfRow(r) == Boxer(r.id, r.name, r.weight, r.height, r.reach, r.age)

\* get_boxer_by_id / get_boxer_by_name: the outcome on the rows selected
Lookup(op, arg, rows) ==
    /\ IF rows = {}
       THEN last' = Call(op, <<arg>>, "ValueError:not_found", << >>, << >>, 0)
       ELSE \E r \in rows :
              last' = Call(op, <<arg>>, NoError, <<BoxerOfRow(r)>>, << >>, 0)
    /\ UNCHANGED <<boxers, nextId, ring>>

get_boxer_by_id(boxer_id) ==
    Lookup("get_boxer_by_id", boxer_id, RowsById(boxer_id))

get_boxer_by_name(boxer_name) ==
    Lookup("get_boxer_by_name", boxer_name, RowsByName(boxer_name))

----------------------------------------------------------------------------
(* api_utils.py *)

\* Random values and probabilities are counted in units of 1/Unit
Unit == 10000

\* get_random(max): the float of the integer random.org answers (1..max),
\* RuntimeError when the request fails or times out, ValueError when the
\* answer is not a number or max < 1
get_random(max) ==
    IF max < 1 THEN {[err |-> "ValueError:max", ret |-> 0]}
    ELSE {[err |-> NoError, ret |-> v * Unit] : v \in 1..max}
         \cup {[err |-> "RuntimeError:request_failed", ret |-> 0],
               [err |-> "ValueError:invalid_response", ret |-> 0]}

\* A call get_random(*args): the parameter max has no default, so a call
\* that does not pass exactly one argument raises TypeError in the caller
CallGetRandom(args) ==
    IF Len(args) # 1
    THEN {[err |-> "TypeError:get_random_missing_max", ret |-> 0]}
    ELSE get_random(args[1])

----------------------------------------------------------------------------
(* ring_model.py *)

\* len(boxer.name)
NameLen(name) ==
    IF name = "Ali" THEN 3
    ELSE IF name = "Tyson" THEN 5
    ELSE IF name = "Frazier" THEN 7
    ELSE 12     \* "Muhammad Ali"

\* get_fighting_skill as if the second age test were boxer.age >= 35
get_fighting_skill_from_35(boxer) ==
    LET age_modifier == IF boxer.age < 25 THEN -1
                        ELSE IF boxer.age >= 35 THEN -2 ELSE 0
    IN 10 * boxer.weight * NameLen(boxer.name) + boxer.reach
       + 10 * age_modifier

\* get_fighting_skill, in tenths (reach a whole number)
get_fighting_skill(boxer) ==
    LET age_modifier == IF boxer.age < 25 THEN -1
                        ELSE IF boxer.age > 35 THEN -2 ELSE 0
    IN 10 * boxer.weight * NameLen(boxer.name) + boxer.reach
       + 10 * age_modifier

Abs(x) == IF x < 0 THEN -x ELSE x

\* math.e ** (-k/10) in units of 1/Unit, rounded down; a double adds
\* nothing to 1 beyond k/10 = 37
RECURSIVE ExpNeg(_)
ExpNeg(k) ==
    IF k = 0 THEN Unit
    ELSE IF k > 370 THEN 0
    ELSE (ExpNeg(k - 1) * 9048) \div Unit

\* normalized_delta = 1 / (1 + math.e ** (-delta)), delta in tenths
NormalizedDelta(delta) == (Unit * Unit) \div (Unit + ExpNeg(delta))

\* fight() as if it passed max = 1 to get_random
FightRandomArgsWithMax == <<1>>

\* The arguments fight() passes to get_random
FightRandomArgs == << >>

\* An argument that is not a Boxer (the tests pass asdict(boxer))
NotABoxer == [type |-> "dict"]

\* The Boxer objects a caller holds: those looked up in the registry
CallerBoxers == {BoxerOfRow(r) : r \in boxers}

\* enter_ring as if the test were len(self.ring) > 2
RingFullOffByOne == Len(ring) > 2

\* enter_ring: len(self.ring) >= 2
RingFull == Len(ring) >= 2

enter_ring(boxer) ==
    /\ IF boxer.type # "Boxer"
       THEN /\ UNCHANGED ring
            /\ last' = Call("enter_ring", <<boxer>>, "TypeError:not_a_boxer",
                            << >>, << >>, 0)
       ELSE IF RingFull
       THEN /\ UNCHANGED ring
            /\ last' = Call("enter_ring", <<boxer>>, "ValueError:ring_full",
                            << >>, << >>, 0)
       ELSE /\ ring' = Append(ring, boxer)
            /\ last' = Call("enter_ring", <<boxer>>, NoError, << >>, << >>, 0)
    /\ UNCHANGED <<boxers, nextId>>

\* clear_ring as if it removed only the boxer who entered last
clear_ring_pop ==
    /\ ring' = IF ring = << >> THEN ring ELSE SubSeq(ring, 1, Len(ring) - 1)
    /\ last' = Call("clear_ring", << >>, NoError, << >>, << >>, 0)
    /\ UNCHANGED <<boxers, nextId>>

clear_ring ==
    /\ ring' = IF ring = << >> THEN ring ELSE << >>
    /\ last' = Call("clear_ring", << >>, NoError, << >>, << >>, 0)
    /\ UNCHANGED <<boxers, nextId>>

\* get_boxers as if it returned the list without testing it
get_boxers_unchecked ==
    /\ last' = Call("get_boxers", << >>, NoError, ring, << >>, 0)
    /\ UNCHANGED <<boxers, nextId, ring>>

get_boxers ==
    /\ last' = IF ring = << >>
               THEN Call("get_boxers", << >>, "ValueError:ring_empty",
                         << >>, << >>, 0)
               ELSE Call("get_boxers", << >>, NoError, ring, << >>, 0)
    /\ UNCHANGED <<boxers, nextId, ring>>

\* get_fighting_skill called on its own
GetFightingSkillCall(boxer) ==
    /\ last' = Call("get_fighting_skill", <<boxer>>, NoError,
                    <<get_fighting_skill(boxer)>>, << >>, 0)
    /\ UNCHANGED <<boxers, nextId, ring>>

\* fight() past the length check, given the outcome of its get_random call
FightDraw(out) ==
    LET boxer_1 == ring[1]
        boxer_2 == ring[2]
        skill_1 == get_fighting_skill(boxer_1)
        skill_2 == get_fighting_skill(boxer_2)
        delta == Abs(skill_1 - skill_2)
        normalized_delta == NormalizedDelta(delta)
        random_number == out.ret
        winner == IF random_number < normalized_delta
                  THEN boxer_1 ELSE boxer_2
        loser == IF random_number < normalized_delta
                 THEN boxer_2 ELSE boxer_1
        err_win == UpdateError(boxers, winner.id, "win")
        rows_win == UpdateRows(boxers, winner.id, "win")
        err_loss == UpdateError(rows_win, loser.id, "loss")
        rows_loss == UpdateRows(rows_win, loser.id, "loss")
    IN
    IF out.err # NoError
    THEN /\ UNCHANGED <<boxers, ring>>
         /\ last' = Call("fight", << >>, out.err, << >>, << >>, 0)
    ELSE IF err_win # NoError
    THEN /\ UNCHANGED <<boxers, ring>>
         /\ last' = Call("fight", << >>, err_win, << >>, << >>, 1)
    ELSE IF err_loss # NoError
    THEN /\ boxers' = rows_win
         /\ UNCHANGED ring
         /\ last' = Call("fight", << >>, err_loss, << >>,
                         << <<winner.id, "win">> >>, 1)
    ELSE /\ boxers' = rows_loss
         /\ ring' = << >>
         /\ last' = Call("fight", << >>, NoError, <<winner.name>>,
                         << <<winner.id, "win">>, <<loser.id, "loss">> >>, 1)

\* fight as if the test were len(self.ring) < 1
TooFewBoxersOffByOne == Len(ring) < 1

\* fight: len(self.ring) < 2
TooFewBoxers == Len(ring) < 2

\* fight: what `boxer_1, boxer_2 = self.get_boxers()` raises
UnpackError ==
    IF ring = << >> THEN "ValueError:ring_empty"
    ELSE IF Len(ring) # 2 THEN "ValueError:unpack"
    ELSE NoError

fight ==
    /\ IF TooFewBoxers
       THEN /\ UNCHANGED <<boxers, ring>>
            /\ last' = Call("fight", << >>, "ValueError:two_boxers",
                            << >>, << >>, 0)
       ELSE IF UnpackError # NoError
       THEN /\ UNCHANGED <<boxers, ring>>
            /\ last' = Call("fight", << >>, UnpackError, << >>, << >>, 0)
       ELSE \E out \in CallGetRandom(FightRandomArgs) : FightDraw(out)
    /\ \A r \in boxers' : r.fights <= MaxFights
    /\ UNCHANGED nextId

Next ==
    \/ \E in \in RosterInputs :
          create_boxer(in[1], in[2], in[3], in[4], in[5])
    \/ \E id \in Ids : delete_boxer(id)
    \/ \E id \in Ids, res \in Results : update_boxer_stats(id, res)
    \/ \E k \in SortKeys : get_leaderboard(k)
    \/ \E b \in CallerBoxers \cup {NotABoxer} : enter_ring(b)
    \/ clear_ring
    \/ get_boxers
    \/ fight

Spec == Init /\ [][Next]_vars

\* The registry alone: create, delete, update_stats and the leaderboard
NextRegistry ==
    \/ \E in \in RegistryInputs :
          create_boxer(in[1], in[2], in[3], in[4], in[5])
    \/ \E id \in Ids : delete_boxer(id)
    \/ \E id \in Ids, res \in Results : update_boxer_stats(id, res)
    \/ \E k \in SortKeys : get_leaderboard(k)
    \/ \E id \in Ids : get_boxer_by_id(id)
    \/ \E n \in RegistryNames : get_boxer_by_name(n)

SpecRegistry == Init /\ [][NextRegistry]_vars

\* The registry alone, create_boxer given every combination of arguments
NextCreate ==
    \/ \E n \in Names, w \in Weights, h \in Heights, r \in Reaches, a \in Ages :
          create_boxer(n, w, h, r, a)
    \/ \E id \in Ids : delete_boxer(id)

SpecCreate == Init /\ [][NextCreate]_vars

\* The leaderboard of a registry whose one row has a longer record
InitRecord ==
    /\ \E f \in 1..MaxRecordFights : \E w \in 0..f :
          boxers = {[id |-> 1, name |-> "Ali", weight |-> 210,
                     height |-> 191, reach |-> 198, age |-> 38,
                     fights |-> f, wins |-> w]}
    /\ nextId = 2
    /\ ring = << >>
    /\ last = Call("init", << >>, NoError, << >>, << >>, 0)

NextRecord == \E k \in SortKeys : get_leaderboard(k)

SpecRecord == InitRecord /\ [][NextRecord]_vars

\* Boxers given to get_fighting_skill on its own
SkillBoxers ==
    {Boxer(1, n, w, 191, r, a) :
        n \in {"Ali", "Tyson", "Frazier", "Muhammad Ali"}, w \in {125, 236},
        r \in {180, 198}, a \in {18, 24, 25, 30, 35, 36, 38, 40}}

\* get_fighting_skill alone
NextSkill == \E b \in SkillBoxers : GetFightingSkillCall(b)

SpecSkill == Init /\ [][NextSkill]_vars

\* get_weight_class alone, given every weight of a range
NextWeightClass == \E w \in MinWeight..MaxWeight : GetWeightClassCall(w)

SpecWeightClass == Init /\ [][NextWeightClass]_vars

----------------------------------------------------------------------------
(* Properties *)

\* The errors with which the random source itself fails
RandomSourceFailures ==
    {"RuntimeError:request_failed", "ValueError:invalid_response",
     "ValueError:max"}

\* The ring holds two different boxers
TwoBoxers == Len(ring) = 2 /\ ring[1].id # ring[2].id

\* The ring holds two boxers and each has a row in the registry
TwoRegisteredBoxers ==
    /\ TwoBoxers
    /\ \A i \in 1..2 : RowsById(ring[i].id) # {}

\* C1: a fight() on a ring of two boxers whose rows exist, in which the
\* random source does not fail, completes, leaves the ring empty and makes
\* exactly two updates: (winner.id, "win") and then (loser.id, "loss").
C1_FightCompletes ==
    [][(last'.op = "fight" /\ TwoRegisteredBoxers
          /\ last'.err \notin RandomSourceFailures)
       => /\ last'.err = NoError
          /\ ring' = << >>
          /\ Len(last'.updates) = 2
          /\ last'.updates[1][2] = "win"
          /\ last'.updates[2][2] = "loss"
          /\ \E i, j \in 1..2 :
                /\ i # j
                /\ last'.updates[1][1] = ring[i].id
                /\ last'.updates[2][1] = ring[j].id
                /\ last'.ret = <<ring[i].name>>]_vars

\* C2: a fight() on a ring of two boxers draws exactly one value from the
\* random source (unless the source fails), and when it completes it
\* returns the name of the winner the draw decides and records the win for
\* that boxer.
C2_OneDrawDecides ==
    [][(last'.op = "fight" /\ TwoBoxers
          /\ last'.err \notin RandomSourceFailures)
       => /\ last'.draws = 1
          /\ last'.err = NoError =>
                /\ last'.ret \in {<<ring[1].name>>, <<ring[2].name>>}
                /\ last'.updates[1][1] \in {ring[1].id, ring[2].id}]_vars

\* The fights and wins of every row are what they were
StatsUnchanged ==
    /\ {r.id : r \in boxers'} = {r.id : r \in boxers}
    /\ \A r \in boxers : \A q \in boxers' :
          r.id = q.id => r.fights = q.fights /\ r.wins = q.wins

C4_EnterRing ==
    /\ [][last'.op = "enter_ring"
          => IF last'.args[1].type # "Boxer"
             THEN last'.err = "TypeError:not_a_boxer" /\ ring' = ring
             ELSE IF Len(ring) = 2
             THEN last'.err = "ValueError:ring_full" /\ ring' = ring
             ELSE last'.err = NoError
                  /\ ring' = Append(ring, last'.args[1])]_vars
    /\ [](Len(ring) <= 2)

\* C4 witness: a third boxer was refused by a full ring.
C4_Witness ==
    /\ last.op = "enter_ring"
    /\ last.err = "ValueError:ring_full"
    /\ Len(ring) = 2

\* C5: fight() on a ring of 0 or 1 boxers raises "There must be two boxers
\* to start a fight.", draws no random value, updates no stats and leaves
\* the ring and the registry as they were.
C5_FightTooFew ==
    [][(last'.op = "fight" /\ Len(ring) < 2)
       => /\ last'.err = "ValueError:two_boxers"
          /\ last'.draws = 0
          /\ last'.updates = << >>
          /\ ring' = ring
          /\ boxers' = boxers]_vars

\* C5 witness: fight() was refused with one boxer in the ring.
C5_Witness ==
    /\ last.op = "fight"
    /\ last.err = "ValueError:two_boxers"
    /\ Len(ring) = 1

\* C6: update_boxer_stats(id, result) on an existing id adds 1 to the row's
\* fights, and also 1 to its wins when result is "win" (wins unchanged
\* for "loss"), leaving every other row as it was; with another result,
\* or with an id that has no row, it raises and the registry is unchanged.
C6_UpdateStats ==
    [][last'.op = "update_boxer_stats"
       => LET id == last'.args[1]
              res == last'.args[2]
          IN IF res \in {"win", "loss"} /\ RowsById(id) # {}
             THEN /\ last'.err = NoError
                  /\ Cardinality(boxers') = Cardinality(boxers)
                  /\ \A r \in boxers :
                        IF r.id = id
                        THEN [r EXCEPT !.fights = r.fights + 1,
                                       !.wins = IF res = "win"
                                                THEN r.wins + 1
                                                ELSE r.wins] \in boxers'
                        ELSE r \in boxers'
             ELSE /\ last'.err # NoError
                  /\ boxers' = boxers]_vars

\* C6 witness: a loss was recorded for a row that already had a win, while
\* another row stayed without fights.
C6_Witness ==
    /\ last.op = "update_boxer_stats"
    /\ last.err = NoError
    /\ last.args[2] = "loss"
    /\ \E r \in boxers : r.id = last.args[1] /\ r.fights = 2 /\ r.wins = 1
    /\ \E r \in boxers : r.id # last.args[1] /\ r.fights = 0

\* The numeric arguments of a create_boxer call break a bound
InvalidAttributes(args) ==
    \/ args[2] < 125
    \/ args[3] <= 0
    \/ args[4] <= 0
    \/ args[5] < 18
    \/ args[5] > 40

\* C7: create_boxer with weight < 125, height <= 0, reach <= 0 or an age
\* outside 18..40 raises, inserts no row and does not touch the store.
C7_InvalidCreate ==
    [][(last'.op = "create_boxer" /\ InvalidAttributes(last'.args))
       => /\ last'.err # NoError
          /\ boxers' = boxers
          /\ nextId' = nextId]_vars

\* C7 witness: a create with height 0 and otherwise valid arguments was
\* refused while the registry held a row.
C7_Witness ==
    /\ last.op = "create_boxer"
    /\ last.args[2] >= 125 /\ last.args[3] = 0 /\ last.args[4] > 0
    /\ last.args[5] \in 18..40
    /\ last.err # NoError
    /\ boxers # {}

Band(w) ==
    {b \in {"HEAVYWEIGHT", "MIDDLEWEIGHT", "LIGHTWEIGHT", "FEATHERWEIGHT"} :
        \/ b = "HEAVYWEIGHT" /\ w >= 203
        \/ b = "MIDDLEWEIGHT" /\ 166 <= w /\ w < 203
        \/ b = "LIGHTWEIGHT" /\ 133 <= w /\ w < 166
        \/ b = "FEATHERWEIGHT" /\ 125 <= w /\ w < 133}

\* C9: get_weight_class(w) returns the one band of the table that w falls
\* in when w >= 125 and raises when w < 125.
C9_WeightClass ==
    last.op = "get_weight_class"
    => LET w == last.args[1]
       IN IF w < 125
          THEN last.err # NoError /\ Band(w) = {}
          ELSE /\ last.err = NoError
               /\ Band(w) = {last.ret[1]}

\* C9 witness: get_weight_class(203) returned HEAVYWEIGHT.
C9_Witness ==
    /\ last.op = "get_weight_class"
    /\ last.args = <<203>>
    /\ last.ret = <<"HEAVYWEIGHT">>

\* C10: get_leaderboard("wins" or "win_pct") returns one entry for each live
\* row with fights > 0 and no other, with the requested key (wins, or
\* wins/fights) never increasing along the list; another sort_by raises.
C10_Leaderboard ==
    last.op = "get_leaderboard"
    => LET sort_by == last.args[1]
           lb == last.ret
       IN IF sort_by \notin {"wins", "win_pct"}
          THEN last.err # NoError
          ELSE /\ last.err = NoError
               /\ \A i, j \in DOMAIN lb : i # j => lb[i].id # lb[j].id
               /\ \A i \in DOMAIN lb :
                     /\ lb[i].fights > 0
                     /\ \E r \in boxers :
                           /\ r.id = lb[i].id /\ r.name = lb[i].name
                           /\ r.fights = lb[i].fights /\ r.wins = lb[i].wins
               /\ \A r \in boxers :
                     r.fights > 0 => \E i \in DOMAIN lb : lb[i].id = r.id
               /\ \A i, j \in DOMAIN lb :
                     i < j =>
                       IF sort_by = "wins" THEN lb[i].wins >= lb[j].wins
                       ELSE lb[i].wins * lb[j].fights
                              >= lb[j].wins * lb[i].fights

\* C10 witness: a leaderboard by win_pct listed a row with 1 win in 1 fight
\* ahead of a row with 1 win in 2 fights and left out a row without fights.
C10_Witness ==
    /\ last.op = "get_leaderboard"
    /\ last.args = <<"win_pct">>
    /\ Len(last.ret) = 2
    /\ last.ret[1].wins = 1 /\ last.ret[1].fights = 1
    /\ last.ret[2].wins = 1 /\ last.ret[2].fights = 2
    /\ \E r \in boxers : r.fights = 0

\* C11: every entry of a leaderboard reports win_pct as 100 * wins / fights
\* rounded to the nearest tenth (10 wins in 12 fights give 83.3), a value
\* between 0.0 and 100.0.
C11_WinPct ==
    (last.op = "get_leaderboard" /\ last.err = NoError)
    => \A i \in DOMAIN last.ret :
          LET e == last.ret[i]
              off == e.win_pct * e.fights - 1000 * e.wins
          IN /\ 2 * off <= e.fights
             /\ -2 * off <= e.fights
             /\ e.win_pct >= 0
             /\ e.win_pct <= 1000

\* C11 witness: a row with 10 wins in 12 fights was reported with 83.3.
C11_Witness ==
    /\ last.op = "get_leaderboard"
    /\ last.err = NoError
    /\ Len(last.ret) = 1
    /\ last.ret[1].wins = 10 /\ last.ret[1].fights = 12
    /\ last.ret[1].win_pct = 833

C12_WitnessEmpty ==
    /\ last.op = "get_boxers"
    /\ last.err = "ValueError:ring_empty"
    /\ ring = << >>
    /\ boxers # {}

\* C13: clear_ring never raises and leaves the ring empty whatever it held,
\* so a second clear_ring changes nothing; it changes no row of the
\* registry.
C13_ClearRing ==
    [][last'.op = "clear_ring"
       => /\ last'.err = NoError
          /\ ring' = << >>
          /\ boxers' = boxers
          /\ nextId' = nextId]_vars

\* C13 witness: the ring is empty after a clear_ring, with rows in the
\* registry.
C13_Witness ==
    /\ last.op = "clear_ring"
    /\ last.err = NoError
    /\ ring = << >>
    /\ Cardinality(boxers) = 2

\* C14: delete_boxer(id) raises when no row has the id and leaves the
\* registry as it was; otherwise it removes the row with that id and leaves
\* every other row, with its attributes, fights and wins, as it was.
C14_Delete ==
    [][last'.op = "delete_boxer"
       => LET id == last'.args[1]
          IN IF \A r \in boxers : r.id # id
             THEN last'.err = "ValueError:not_found" /\ boxers' = boxers
             ELSE /\ last'.err = NoError
                  /\ \A r \in boxers : r.id # id => r \in boxers'
                  /\ \A r \in boxers' : r \in boxers /\ r.id # id]_vars

\* C14 witness: a row was deleted while two others, one of them with
\* fights, stayed.
C14_Witness ==
    /\ last.op = "delete_boxer"
    /\ last.err = NoError
    /\ Cardinality(boxers) = 2
    /\ \E r \in boxers : r.fights > 0

\* C15: get_boxer_by_id and get_boxer_by_name raise when no live row
\* matches; otherwise they return the Boxer with the id of the matching row
\* and the name, weight, height, reach and age given to create_boxer, with
\* the weight class of the weight; they change no state.
C15_Lookup ==
    [][last'.op \in {"get_boxer_by_id", "get_boxer_by_name"}
       => LET arg == last'.args[1]
              match == IF last'.op = "get_boxer_by_id"
                       THEN {r \in boxers : r.id = arg}
                       ELSE {r \in boxers : r.name = arg}
          IN /\ boxers' = boxers /\ ring' = ring /\ nextId' = nextId
             /\ IF match = {}
                THEN last'.err = "ValueError:not_found"
                ELSE /\ last'.err = NoError
                     /\ LET b == last'.ret[1]
                        IN /\ \E r \in match :
                                 /\ b.id = r.id /\ b.name = r.name
                                 /\ b.weight = r.weight
                                 /\ b.height = r.height
                                 /\ b.reach = r.reach /\ b.age = r.age
                           /\ <<b.name, b.weight, b.height, b.reach, b.age>>
                                 \in RegistryInputs
                           /\ Band(b.weight) = {b.weight_class}]_vars

\* C15 witness: get_boxer_by_id raised for an id whose row had been deleted.
C15_Witness ==
    /\ last.op = "get_boxer_by_id"
    /\ last.err = "ValueError:not_found"
    /\ last.args[1] < nextId

\* C15 witness of the success: get_boxer_by_name returned a Boxer.
C15_WitnessFound ==
    /\ last.op = "get_boxer_by_name"
    /\ last.err = NoError
    /\ last.ret[1].name = last.args[1]

\* C16: get_fighting_skill(boxer) is weight * len(name) + reach / 10 +
\* age_modifier, with age_modifier -1 below 25, -2 above 35 and 0 from 25
\* to 35; it changes neither the ring nor the registry.  (Tenths.)
C16_FightingSkill ==
    [][last'.op = "get_fighting_skill"
       => LET b == last'.args[1]
              age_modifier == CASE b.age <= 24 -> -1
                                [] b.age >= 36 -> -2
                                [] OTHER -> 0
          IN /\ last'.err = NoError
             /\ last'.ret[1] = 10 * (b.weight * NameLen(b.name) + age_modifier)
                                 + b.reach
             /\ ring' = ring
             /\ boxers' = boxers]_vars

\* C16 witness: weight 236, name "Muhammad Ali", reach 198, age 38 give
\* 2849.8.
C16_Witness ==
    /\ last.op = "get_fighting_skill"
    /\ last.args[1].name = "Muhammad Ali"
    /\ last.args[1].weight = 236
    /\ last.args[1].reach = 198
    /\ last.args[1].age = 38
    /\ last.ret = <<28498>>

\* C17: create_boxer reports the first violated bound in the order weight,
\* height, reach, age, and does so before it looks the name up: a create
\* with a violated bound and the name of a live row reports the bound.
C17_ValidationOrder ==
    [][last'.op = "create_boxer"
       => LET weight == last'.args[2]
              height == last'.args[3]
              reach == last'.args[4]
              age == last'.args[5]
          IN /\ weight < 125 => last'.err = "ValueError:invalid_weight"
             /\ (weight >= 125 /\ height <= 0)
                   => last'.err = "ValueError:invalid_height"
             /\ (weight >= 125 /\ height > 0 /\ reach <= 0)
                   => last'.err = "ValueError:invalid_reach"
             /\ (weight >= 125 /\ height > 0 /\ reach > 0
                   /\ (age < 18 \/ age > 40))
                   => last'.err = "ValueError:invalid_age"]_vars

\* C17 witness: a create with weight 124, age 41 and the name of a live row
\* reported the weight.
C17_Witness ==
    /\ last.op = "create_boxer"
    /\ last.args[2] = 124
    /\ last.args[5] = 41
    /\ RowsByName(last.args[1]) # {}
    /\ last.err = "ValueError:invalid_weight"

\* C18: every live row has 0 <= wins <= fights, and a row starts with
\* fights = 0 and wins = 0.
C18_WinsWithinFights ==
    /\ [](\A r \in boxers : 0 <= r.wins /\ r.wins <= r.fights)
    /\ [][(last'.op = "create_boxer" /\ last'.err = NoError)
          => /\ boxers' # boxers
             /\ \A r \in boxers' \ boxers : r.fights = 0 /\ r.wins = 0]_vars

\* C18 witness: a row with as many wins as fights beside a row without
\* wins, with a boxer in the ring.
C18_Witness ==
    /\ \E r \in boxers : r.fights = 2 /\ r.wins = 2
    /\ \E r \in boxers : r.fights = 1 /\ r.wins = 0
    /\ ring # << >>

\* C19: when the ring holds two entries they are two different boxers
\* (different ids).
C19_DistinctBoxers == Len(ring) = 2 => ring[1].id # ring[2].id

====
